---- MODULE Spec2Model ----
(***************************************************************************)
(* Verlet cloth simulation of src/experience: the two cloth components     *)
(* (ClothSimulation.jsx, AdvancedClothSimulation.jsx), the App handlers    *)
(* that configure and reset them (index.jsx) and the keyed mount of        *)
(* Scene.jsx.                                                              *)
(*                                                                         *)
(* Numbers.  The source computes in IEEE doubles; the model computes in    *)
(* fixed point, rounding every product and quotient to the nearest unit:   *)
(*   lengths and positions   1e-3   (0.3 is 300)                           *)
(*   forces, accelerations   1e-6   (GRAVITY -0.0098 is -9800)             *)
(*   times                   0.1 s  (deltaTime 1 is a frame of 100 ms)     *)
(*   angles                  0.01 rad, sines and unit vectors 1e-3         *)
(*   wind intensity, mass    0.1    (mass 1.0 is 10)                       *)
(*   stiffness               0.01   (0.5 is 50)                            *)
(***************************************************************************)
EXTENDS Integers, Sequences, FiniteSets, TLC

VARIABLES clothSettings, resetKey, grid, vertices, constraints, sphere,
          frameCount, elapsedTime, positions, needsUpdate, nOps, probe

vars == <<clothSettings, resetKey, grid, vertices, constraints, sphere,
          frameCount, elapsedTime, positions, needsUpdate, nOps, probe>>

cloth == <<vertices, constraints, sphere, frameCount, positions, needsUpdate>>

----------------------------------------------------------------------------
(* Fixed-point arithmetic *)

\* F applied to the value of e, e computed once: a loop hands on the value of
\* its step and not the expression that computes it
Bind(e, F(_)) == CHOOSE r \in {F(v) : v \in {e}} : TRUE

Abs(a) == IF a < 0 THEN -a ELSE a

Sgn(a) == IF a > 0 THEN 1 ELSE IF a < 0 THEN -1 ELSE 0

\* a / b rounded to the nearest integer, halves away from zero
RDiv(a, b) == Sgn(a) * Sgn(b) * ((2 * Abs(a) + Abs(b)) \div (2 * Abs(b)))

RECURSIVE SqrtFloor(_, _, _)
SqrtFloor(n, lo, hi) ==
  IF lo >= hi THEN lo
  ELSE LET mid == (lo + hi + 1) \div 2
       IN IF mid * mid <= n THEN SqrtFloor(n, mid, hi) ELSE SqrtFloor(n, lo, mid - 1)

\* Math.sqrt, to the nearest unit
Sqrt(n) ==
  LET f == SqrtFloor(n, 0, 46340)
  IN IF n - f * f > f THEN f + 1 ELSE f

\* sin on [0, pi] (Bhaskara's rational approximation), argument in 0.01 rad,
\* value in 1e-3
SinHalf(a) ==
  LET p == a * (314 - a)
  IN RDiv(16000 * p, 492980 - 4 * p)

\* Math.sin, Math.cos
Sin(a) ==
  LET m == a % 628
  IN IF m <= 314 THEN SinHalf(m) ELSE -SinHalf(m - 314)

Cos(a) == Sin(a + 157)

----------------------------------------------------------------------------
(* THREE.Vector3 *)

Vector3(x, y, z) == <<x, y, z>>

VAdd(u, v) == <<u[1] + v[1], u[2] + v[2], u[3] + v[3]>>

VSub(u, v) == <<u[1] - v[1], u[2] - v[2], u[3] - v[3]>>

\* multiplyScalar(n / d), divideScalar
VScale(u, n, d) == <<RDiv(u[1] * n, d), RDiv(u[2] * n, d), RDiv(u[3] * n, d)>>

VDot(u, v) == u[1] * v[1] + u[2] * v[2] + u[3] * v[3]

VLength(u) == Sqrt(VDot(u, u))

DistanceTo(u, v) == VLength(VSub(u, v))

\* normalize() is divideScalar(length() || 1): the zero vector stays zero.
\* The unit vector is kept in 1e-3.
Normalize(u) ==
  LET l == VLength(u)
  IN IF l = 0 THEN <<0, 0, 0>> ELSE VScale(u, 1000, l)

----------------------------------------------------------------------------
(* Simulation parameters *)

\* ClothSimulation.jsx
CLOTH_WIDTH_basic == 2000
CLOTH_HEIGHT_basic == 2000
CLOTH_SEGMENTS_X_basic == 25
CLOTH_SEGMENTS_Y_basic == 25
DAMPING_basic == 990
STIFFNESS_basic == 40
GRAVITY_basic == -9800
WIND_STRENGTH_basic == 3000
SphereRadius_basic == 250
Iterations_basic == 4

\* AdvancedClothSimulation.jsx
CLOTH_WIDTH == 2500
CLOTH_HEIGHT == 2500
CLOTH_SEGMENTS_X == 30
CLOTH_SEGMENTS_Y == 30
DAMPING == 995
STIFFNESS == 50
GRAVITY == -9800
WIND_STRENGTH == 4000
TEAR_THRESHOLD == 8
SphereRadius == 300
Iterations == 5

ClothTypes == {"basic", "advanced"}

----------------------------------------------------------------------------
(* class VerletVertex (basic) *)

VerletVertex(x, y, z, isFixed) ==
  [position |-> Vector3(x, y, z), oldPosition |-> Vector3(x, y, z),
   acceleration |-> Vector3(0, 0, 0), isFixed |-> isFixed]

\* a faulty update: the accumulated acceleration is not cleared
VerletVertex_update_keepAcceleration(v, deltaTime) ==
  IF v.isFixed THEN v
  ELSE LET velocity == VScale(VSub(v.position, v.oldPosition), DAMPING_basic, 1000)
       IN [v EXCEPT !.oldPosition = v.position,
                    !.position = VAdd(VAdd(v.position, velocity),
                                      VScale(v.acceleration, deltaTime * deltaTime, 100000))]

VerletVertex_update(v, deltaTime) ==
  IF v.isFixed THEN v
  ELSE LET velocity == VScale(VSub(v.position, v.oldPosition), DAMPING_basic, 1000)
       IN [v EXCEPT !.oldPosition = v.position,
                    !.position = VAdd(VAdd(v.position, velocity),
                                      VScale(v.acceleration, deltaTime * deltaTime, 100000)),
                    !.acceleration = Vector3(0, 0, 0)]

VerletVertex_addForce(v, force) ==
  [v EXCEPT !.acceleration = VAdd(v.acceleration, force)]

(* class VerletConstraint (basic); v1, v2 are indices into the vertex array *)

VerletConstraint(vs, i, j) ==
  [v1 |-> i, v2 |-> j, restLength |-> DistanceTo(vs[i].position, vs[j].position)]

\* difference * stiffness * 0.5, in 1e-4
Correction(restLength, distance, stiffness) ==
  RDiv((restLength - distance) * stiffness * 50, distance)

VerletConstraint_satisfy(vs, c) ==
  LET delta == VSub(vs[c.v2].position, vs[c.v1].position)
      distance == VLength(delta)
      offset == VScale(delta, Correction(c.restLength, distance, STIFFNESS_basic), 10000)
      p1 == IF ~vs[c.v1].isFixed THEN VSub(vs[c.v1].position, offset)
                                 ELSE vs[c.v1].position
      p2 == IF ~vs[c.v2].isFixed THEN VAdd(vs[c.v2].position, offset)
                                 ELSE vs[c.v2].position
  IN IF distance = 0 THEN vs
     ELSE [vs EXCEPT ![c.v1].position = p1, ![c.v2].position = p2]

----------------------------------------------------------------------------
(* class AdvancedVerletVertex *)

AdvancedVerletVertex(x, y, z, isFixed) ==
  [position |-> Vector3(x, y, z), oldPosition |-> Vector3(x, y, z),
   acceleration |-> Vector3(0, 0, 0), isFixed |-> isFixed, mass |-> 10,
   pinned |-> isFixed]

AdvancedVerletVertex_update(v, deltaTime) ==
  IF v.isFixed \/ v.pinned THEN v
  ELSE LET velocity == VScale(VSub(v.position, v.oldPosition), DAMPING, 1000)
       IN [v EXCEPT !.oldPosition = v.position,
                    !.position = VAdd(VAdd(v.position, velocity),
                                      VScale(v.acceleration, deltaTime * deltaTime, 100000)),
                    !.acceleration = Vector3(0, 0, 0)]

AdvancedVerletVertex_addForce(v, force) ==
  IF ~v.isFixed /\ ~v.pinned
    THEN [v EXCEPT !.acceleration = VAdd(v.acceleration, VScale(force, 10, v.mass))]
    ELSE v

AdvancedVerletVertex_pin(v) == [v EXCEPT !.pinned = TRUE]

AdvancedVerletVertex_unpin(v) == [v EXCEPT !.pinned = FALSE]

(* class AdvancedVerletConstraint *)

AdvancedVerletConstraint(vs, i, j, stiffness) ==
  [v1 |-> i, v2 |-> j, restLength |-> DistanceTo(vs[i].position, vs[j].position),
   stiffness |-> stiffness, active |-> TRUE]

\* the "Check for tearing" of satisfy()
SatisfyTears(c, distance) ==
  distance * 10 > c.restLength * TEAR_THRESHOLD /\ c.restLength > 100

\* a faulty satisfy: each endpoint is weighted by its own mass
AdvancedVerletConstraint_satisfy_ownMass(vs, c) ==
  LET v1 == vs[c.v1]
      v2 == vs[c.v2]
      delta == VSub(v2.position, v1.position)
      distance == VLength(delta)
      offset == VScale(delta, Correction(c.restLength, distance, c.stiffness), 10000)
      totalMass == v1.mass + v2.mass
      p1 == IF ~v1.isFixed /\ ~v1.pinned
              THEN VSub(v1.position, VScale(offset, v1.mass, totalMass))
              ELSE v1.position
      p2 == IF ~v2.isFixed /\ ~v2.pinned
              THEN VAdd(v2.position, VScale(offset, v2.mass, totalMass))
              ELSE v2.position
  IN IF ~c.active THEN [vs |-> vs, c |-> c]
     ELSE IF SatisfyTears(c, distance) THEN [vs |-> vs, c |-> [c EXCEPT !.active = FALSE]]
     ELSE IF distance = 0 THEN [vs |-> vs, c |-> c]
     ELSE [vs |-> [vs EXCEPT ![c.v1].position = p1, ![c.v2].position = p2], c |-> c]

\* a faulty satisfy: it does not return at once on an inactive constraint
AdvancedVerletConstraint_satisfy_inactive(vs, c) ==
  LET v1 == vs[c.v1]
      v2 == vs[c.v2]
      delta == VSub(v2.position, v1.position)
      distance == VLength(delta)
      offset == VScale(delta, Correction(c.restLength, distance, c.stiffness), 10000)
      totalMass == v1.mass + v2.mass
      p1 == IF ~v1.isFixed /\ ~v1.pinned
              THEN VSub(v1.position, VScale(offset, v2.mass, totalMass))
              ELSE v1.position
      p2 == IF ~v2.isFixed /\ ~v2.pinned
              THEN VAdd(v2.position, VScale(offset, v1.mass, totalMass))
              ELSE v2.position
  IN IF SatisfyTears(c, distance) THEN [vs |-> vs, c |-> [c EXCEPT !.active = FALSE]]
     ELSE IF distance = 0 THEN [vs |-> vs, c |-> c]
     ELSE [vs |-> [vs EXCEPT ![c.v1].position = p1, ![c.v2].position = p2], c |-> c]

\* satisfy(): the vertex array and the constraint after the call
AdvancedVerletConstraint_satisfy(vs, c) ==
  LET v1 == vs[c.v1]
      v2 == vs[c.v2]
      delta == VSub(v2.position, v1.position)
      distance == VLength(delta)
      offset == VScale(delta, Correction(c.restLength, distance, c.stiffness), 10000)
      totalMass == v1.mass + v2.mass
      p1 == IF ~v1.isFixed /\ ~v1.pinned
              THEN VSub(v1.position, VScale(offset, v2.mass, totalMass))
              ELSE v1.position
      p2 == IF ~v2.isFixed /\ ~v2.pinned
              THEN VAdd(v2.position, VScale(offset, v1.mass, totalMass))
              ELSE v2.position
  IN IF ~c.active THEN [vs |-> vs, c |-> c]
     ELSE IF SatisfyTears(c, distance) THEN [vs |-> vs, c |-> [c EXCEPT !.active = FALSE]]
     ELSE IF distance = 0 THEN [vs |-> vs, c |-> c]
     ELSE [vs |-> [vs EXCEPT ![c.v1].position = p1, ![c.v2].position = p2], c |-> c]

AdvancedVerletConstraint_tear(c) == [c EXCEPT !.active = FALSE]

----------------------------------------------------------------------------
(* useMemo: cloth initialization.  The modelled cloth is a patch of          *)
(* g.segX x g.segY cells of the source's cell size (CLOTH_WIDTH /            *)
(* CLOTH_SEGMENTS_X); the source's own grid is the patch 30 x 30 (25 x 25).  *)

NumVertices(g) == (g.segX + 1) * (g.segY + 1)

\* column and row of the vertex pushed n-th (n from 1)
ColOf(g, n) == (n - 1) % (g.segX + 1)

RowOf(g, n) == (n - 1) \div (g.segX + 1)

\* (x / CLOTH_SEGMENTS_X - 0.5) * CLOTH_WIDTH
PosX(x, segX, width) == RDiv((2 * x - segX) * width, 2 * segX)

\* (y / CLOTH_SEGMENTS_Y) * CLOTH_HEIGHT
PosZ(y, segY, height) == RDiv(y * height, segY)

OptC(cond, c) == IF cond THEN <<c>> ELSE <<>>

BasicVertices(g) ==
  LET width == RDiv(CLOTH_WIDTH_basic * g.segX, CLOTH_SEGMENTS_X_basic)
      height == RDiv(CLOTH_HEIGHT_basic * g.segY, CLOTH_SEGMENTS_Y_basic)
  IN [n \in 1..NumVertices(g) |->
        LET x == ColOf(g, n)
            y == RowOf(g, n)
        IN VerletVertex(PosX(x, g.segX, width), 0, PosZ(y, g.segY, height),
                        y = 0 /\ x % 5 = 0)]

\* a faulty builder: the second diagonal of a cell is left out
BasicConstraintsAt_oneDiagonal(g, vs, n) ==
  LET x == ColOf(g, n)
      y == RowOf(g, n)
      w == g.segX + 1
  IN OptC(x < g.segX, VerletConstraint(vs, n, n + 1))
     \o OptC(y < g.segY, VerletConstraint(vs, n, n + w))
     \o OptC(x < g.segX /\ y < g.segY, VerletConstraint(vs, n, n + w + 1))
     \o OptC(x < g.segX - 1, VerletConstraint(vs, n, n + 2))
     \o OptC(y < g.segY - 1, VerletConstraint(vs, n, n + 2 * w))

\* the constraints pushed for grid node n, in the order of the source
BasicConstraintsAt(g, vs, n) ==
  LET x == ColOf(g, n)
      y == RowOf(g, n)
      w == g.segX + 1
  IN OptC(x < g.segX, VerletConstraint(vs, n, n + 1))
     \o OptC(y < g.segY, VerletConstraint(vs, n, n + w))
     \o (IF x < g.segX /\ y < g.segY
           THEN <<VerletConstraint(vs, n, n + w + 1), VerletConstraint(vs, n + 1, n + w)>>
           ELSE <<>>)
     \o OptC(x < g.segX - 1, VerletConstraint(vs, n, n + 2))
     \o OptC(y < g.segY - 1, VerletConstraint(vs, n, n + 2 * w))

RECURSIVE BasicConstraints(_, _, _)
BasicConstraints(g, vs, n) ==
  IF n = 0 THEN <<>>
  ELSE BasicConstraints(g, vs, n - 1) \o BasicConstraintsAt(g, vs, n)

\* vertex.mass = 0.8 + Math.random() * 0.4: one of the values 0.8 .. 1.1,
\* the draw of vertex n under seed
MassOf(seed, n) == 8 + ((n * seed + seed) % 4)

AdvancedVertices(g, seed) ==
  LET width == RDiv(CLOTH_WIDTH * g.segX, CLOTH_SEGMENTS_X)
      height == RDiv(CLOTH_HEIGHT * g.segY, CLOTH_SEGMENTS_Y)
  IN [n \in 1..NumVertices(g) |->
        LET x == ColOf(g, n)
            y == RowOf(g, n)
            isFixed == (y = 0) /\ (x = 0 \/ x = g.segX \/ x % 6 = 0)
        IN [AdvancedVerletVertex(PosX(x, g.segX, width), 0, PosZ(y, g.segY, height),
                                 isFixed)
              EXCEPT !.mass = MassOf(seed, n)]]

AdvancedConstraintsAt(g, vs, n) ==
  LET x == ColOf(g, n)
      y == RowOf(g, n)
      w == g.segX + 1
  IN OptC(x < g.segX, AdvancedVerletConstraint(vs, n, n + 1, STIFFNESS))
     \o OptC(y < g.segY, AdvancedVerletConstraint(vs, n, n + w, STIFFNESS))
     \o (IF x < g.segX /\ y < g.segY
           THEN <<AdvancedVerletConstraint(vs, n, n + w + 1, RDiv(STIFFNESS * 8, 10)),
                  AdvancedVerletConstraint(vs, n + 1, n + w, RDiv(STIFFNESS * 8, 10))>>
           ELSE <<>>)
     \o OptC(x < g.segX - 1, AdvancedVerletConstraint(vs, n, n + 2, RDiv(STIFFNESS * 3, 10)))
     \o OptC(y < g.segY - 1,
             AdvancedVerletConstraint(vs, n, n + 2 * w, RDiv(STIFFNESS * 3, 10)))

RECURSIVE AdvancedConstraints(_, _, _)
AdvancedConstraints(g, vs, n) ==
  IF n = 0 THEN <<>>
  ELSE AdvancedConstraints(g, vs, n - 1) \o AdvancedConstraintsAt(g, vs, n)

(* A store into the Float32Array of the position attribute rounds the number *)
(* to single precision.  An entry of the buffer is the float it holds:       *)
(* sign * mantissa * 2^(exponent - 23), mantissa in 2^23 .. 2^24 - 1.        *)

\* a = num / den * 1000 * 2^e with den <= num < 2 * den
RECURSIVE Normalized(_, _, _)
Normalized(num, den, e) ==
  IF num >= 2 * den THEN Normalized(num, 2 * den, e + 1)
  ELSE IF num < den THEN Normalized(2 * num, den, e - 1)
  ELSE [num |-> num, den |-> den, e |-> e]

\* the next bits of the quotient q + r / den, by long division
RECURSIVE QuotientBits(_, _, _, _)
QuotientBits(q, r, den, bits) ==
  IF bits = 0 THEN [q |-> q, r |-> r]
  ELSE IF 2 * r >= den THEN QuotientBits(2 * q + 1, 2 * r - den, den, bits - 1)
  ELSE QuotientBits(2 * q, 2 * r, den, bits - 1)

\* the 24-bit mantissa of |n| / 1000 before rounding, and what it leaves out
Mantissa(n) ==
  LET a == Normalized(Abs(n), 1000, 0)
      d == QuotientBits(1, a.num - a.den, a.den, 23)
  IN [q |-> d.q, r |-> d.r, den |-> a.den, e |-> a.e]

\* the number n / 1000 is a single-precision float: the store keeps it as it is
IsFloat32(n) == n = 0 \/ Mantissa(n).r = 0

\* positions[k] = x: the float nearest to n / 1000, ties to even
ToFloat32(n) ==
  IF n = 0 THEN [sign |-> 0, mantissa |-> 0, exponent |-> 0]
  ELSE LET m == Mantissa(n)
           up == 2 * m.r > m.den \/ (2 * m.r = m.den /\ m.q % 2 = 1)
           q == IF up THEN m.q + 1 ELSE m.q
       IN IF q = 16777216
            THEN [sign |-> Sgn(n), mantissa |-> 8388608, exponent |-> m.e + 1]
            ELSE [sign |-> Sgn(n), mantissa |-> q, exponent |-> m.e]

\* the Float32Array written from the vertices: 3 entries per vertex
Flatten(vs) ==
  [k \in 1..(3 * Len(vs)) |->
     ToFloat32(vs[((k - 1) \div 3) + 1].position[((k - 1) % 3) + 1])]

\* the refs and memo of a freshly mounted cloth component
MountBasic(g) ==
  LET vs == BasicVertices(g)
  IN [vertices |-> vs,
      constraints |-> BasicConstraints(g, vs, NumVertices(g)),
      sphere |-> [position |-> Vector3(0, 0, 0)],
      frameCount |-> 0,
      positions |-> Flatten(vs),
      needsUpdate |-> FALSE]

MountAdvanced(g, seed) ==
  LET vs == AdvancedVertices(g, seed)
  IN [vertices |-> vs,
      constraints |-> AdvancedConstraints(g, vs, NumVertices(g)),
      sphere |-> [position |-> Vector3(0, 0, 0), lastPosition |-> Vector3(0, 0, 0)],
      frameCount |-> 0,
      positions |-> Flatten(vs),
      needsUpdate |-> FALSE]

Mount(clothType, g, seed) ==
  IF clothType = "advanced" THEN MountAdvanced(g, seed) ELSE MountBasic(g)

----------------------------------------------------------------------------
(* useFrame of ClothSimulation (basic) *)

\* angle a * windTime + b * p in 0.01 rad; wt is windTime in 0.01 s, a10 and
\* b10 are the coefficients times ten
Angle(wt, a10, p, b10) == RDiv(wt * a10, 10) + RDiv(p * b10, 100)

\* a faulty wind scale: the noise times WIND_STRENGTH, windIntensity left out
WindScale_unscaled(noise, strength, windIntensity) == RDiv(noise * strength, 1000)

\* X * WIND_STRENGTH * windIntensity
WindScale(noise, strength, windIntensity) ==
  RDiv(RDiv(noise * strength, 1000) * windIntensity, 10)

\* X * WIND_STRENGTH * f * windIntensity, f10 the factor times ten
WindScaleF(noise, strength, f10, windIntensity) ==
  RDiv(RDiv(RDiv(noise * strength, 1000) * f10, 10) * windIntensity, 10)

BasicSpherePosition(time) ==
  Vector3(RDiv(Sin(18 * time) * 600, 1000),
          -300 + RDiv(Sin(7 * time) * 400, 1000),
          RDiv(Cos(12 * time) * 400, 1000))

BasicWind(time, pos, windIntensity) ==
  LET windTime == 5 * time
      x == pos[1]
      z == pos[3]
  IN Vector3(
       WindScale(Sin(Angle(windTime, 20, x, 30)) + Sin(Angle(windTime, 32, z, 20)),
                 WIND_STRENGTH_basic, windIntensity),
       WindScaleF(Sin(Angle(windTime, 15, x, 40) + RDiv(z * 30, 100)),
                  WIND_STRENGTH_basic, 3, windIntensity),
       WindScaleF(Cos(Angle(windTime, 18, x, 25)) + Cos(Angle(windTime, 23, z, 18)),
                  WIND_STRENGTH_basic, 7, windIntensity))

\* "Sphere collision" of the basic cloth, for one vertex
BasicSphereCollision(v, center) ==
  LET toSphere == VSub(v.position, center)
      distance == VLength(toSphere)
      minDistance == SphereRadius_basic + 50
      pushBack == VScale(Normalize(toSphere), minDistance - distance, 1000)
  IN IF distance < minDistance
       THEN [v EXCEPT !.position = VAdd(v.position, pushBack)]
       ELSE v

\* the body of vertices.current.forEach of "Apply forces", for one vertex
BasicApplyForces(v, time, center, props) ==
  IF v.isFixed THEN v
  ELSE Bind(VerletVertex_addForce(v, Vector3(0, GRAVITY_basic, 0)), LAMBDA g :
       Bind(VerletVertex_addForce(g, BasicWind(time, v.position, props.windIntensity)),
            LAMBDA w : IF props.showSphere THEN BasicSphereCollision(w, center) ELSE w))

\* constraints.forEach(constraint => constraint.satisfy()) over cs[lo..hi], in
\* order; the range is halved to keep the evaluation shallow
RECURSIVE BasicSatisfyAll(_, _, _, _)
BasicSatisfyAll(vs, cs, lo, hi) ==
  IF lo > hi THEN vs
  ELSE IF lo = hi THEN VerletConstraint_satisfy(vs, cs[lo])
  ELSE Bind(BasicSatisfyAll(vs, cs, lo, (lo + hi) \div 2),
            LAMBDA next : BasicSatisfyAll(next, cs, ((lo + hi) \div 2) + 1, hi))

RECURSIVE BasicRelax(_, _, _)
BasicRelax(vs, cs, iterations) ==
  IF iterations = 0 THEN vs
  ELSE Bind(BasicSatisfyAll(vs, cs, 1, Len(cs)),
            LAMBDA next : BasicRelax(next, cs, iterations - 1))

\* one call of the useFrame callback: the refs after it
BasicFrame(c, deltaTime, time, props) ==
  Bind(BasicSpherePosition(time), LAMBDA center :
  Bind([n \in 1..Len(c.vertices) |->
          BasicApplyForces(c.vertices[n], time, center, props)], LAMBDA forced :
  Bind([n \in 1..Len(forced) |-> VerletVertex_update(forced[n], deltaTime)], LAMBDA updated :
  Bind(BasicRelax(updated, c.constraints, Iterations_basic), LAMBDA relaxed :
    [vertices |-> relaxed,
     constraints |-> c.constraints,
     sphere |-> [position |-> center],
     frameCount |-> c.frameCount + 1,
     positions |-> Flatten(relaxed),
     needsUpdate |-> TRUE]))))

----------------------------------------------------------------------------
(* useFrame of AdvancedClothSimulation *)

AdvancedSpherePosition(time) ==
  Vector3(RDiv(Sin(12 * time) * 800, 1000) + RDiv(Cos(7 * time) * 300, 1000),
          -200 + RDiv(Sin(8 * time) * 500, 1000) + RDiv(Cos(15 * time) * 200, 1000),
          RDiv(Cos(9 * time) * 600, 1000) + RDiv(Sin(18 * time) * 200, 1000))

AdvancedWind(time, pos, windIntensity) ==
  LET windTime == 3 * time
      x == pos[1]
      y == pos[2]
      z == pos[3]
      noiseX == RDiv(Sin(Angle(windTime, 21, x, 40)) * Cos(Angle(windTime, 17, z, 30)), 1000)
      noiseY == RDiv(Sin(Angle(windTime, 13, y, 50)) * Cos(Angle(windTime, 24, x, 20)), 1000)
      noiseZ == RDiv(Cos(Angle(windTime, 18, z, 25)) * Sin(Angle(windTime, 31, y, 15)), 1000)
  IN Vector3(WindScale(noiseX, WIND_STRENGTH, windIntensity),
             RDiv(WindScale(noiseY, WIND_STRENGTH, windIntensity) * 3, 10),
             RDiv(WindScale(noiseZ, WIND_STRENGTH, windIntensity) * 8, 10))

\* "Sphere collision with velocity-based response", for one vertex
AdvancedSphereCollision(v, center) ==
  LET toSphere == VSub(v.position, center)
      distance == VLength(toSphere)
      minDistance == SphereRadius + 80
      correction == VScale(Normalize(toSphere), minDistance - distance, 1000)
      position == VAdd(v.position, correction)
      velocity == VSub(position, v.oldPosition)
      \* toSphere is by now the correction vector (normalize and multiplyScalar
      \* work in place)
      normal == Normalize(correction)
      velocityAlongNormal == RDiv(VDot(velocity, normal), 1000)
      bounce == VScale(normal, velocityAlongNormal * (-15), 10000)
  IN IF distance < minDistance /\ distance > 0
       THEN [v EXCEPT !.position = position,
                      !.oldPosition = IF velocityAlongNormal < 0
                                        THEN VSub(v.oldPosition, bounce)
                                        ELSE v.oldPosition]
       ELSE v

\* one comparison of "Simple self-collision": vertex i against other j
SelfCollisionPair(vs, i, j) ==
  LET distance == DistanceTo(vs[i].position, vs[j].position)
      separation == VScale(Normalize(VSub(vs[i].position, vs[j].position)),
                           RDiv((100 - distance) * 5, 10), 1000)
  IN IF distance < 100 /\ distance > 0
       THEN [vs EXCEPT ![i].position = VAdd(vs[i].position, separation),
                       ![j].position = VSub(vs[j].position, separation)]
       ELSE vs

\* for (let j = i + 10; j < vertices.current.length; j += 15)
RECURSIVE SelfCollision(_, _, _)
SelfCollision(vs, i, j) ==
  IF j > Len(vs) THEN vs
  ELSE Bind(SelfCollisionPair(vs, i, j), LAMBDA next : SelfCollision(next, i, j + 15))

\* the body of vertices.current.forEach of "Apply forces", for vertex i
AdvancedApplyForces(vs, i, time, center, frame, props) ==
  IF vs[i].isFixed \/ vs[i].pinned THEN vs
  ELSE Bind(AdvancedVerletVertex_addForce(vs[i], Vector3(0, GRAVITY, 0)), LAMBDA g :
       Bind(AdvancedVerletVertex_addForce(
              g, AdvancedWind(time, vs[i].position, props.windIntensity)), LAMBDA w :
       Bind([vs EXCEPT ![i] = IF props.showSphere THEN AdvancedSphereCollision(w, center)
                                                  ELSE w], LAMBDA vs1 :
       IF frame % 3 = 0 THEN SelfCollision(vs1, i, i + 10) ELSE vs1)))

\* vertices.current.forEach of "Apply forces" over the vertices lo..hi, in order
RECURSIVE AdvancedForceLoop(_, _, _, _, _, _, _)
AdvancedForceLoop(vs, lo, hi, time, center, frame, props) ==
  IF lo > hi THEN vs
  ELSE IF lo = hi THEN AdvancedApplyForces(vs, lo, time, center, frame, props)
  ELSE Bind(AdvancedForceLoop(vs, lo, (lo + hi) \div 2, time, center, frame, props),
            LAMBDA next : AdvancedForceLoop(next, ((lo + hi) \div 2) + 1, hi,
                                            time, center, frame, props))

\* constraints.current.forEach(constraint => { if (constraint.active) constraint.satisfy() })
\* over the constraints lo..hi, in order
RECURSIVE AdvancedSatisfyAll(_, _, _, _)
AdvancedSatisfyAll(vs, cs, lo, hi) ==
  IF lo > hi THEN [vs |-> vs, cs |-> cs]
  ELSE IF lo = hi
    THEN IF cs[lo].active
           THEN Bind(AdvancedVerletConstraint_satisfy(vs, cs[lo]),
                     LAMBDA r : [vs |-> r.vs, cs |-> [cs EXCEPT ![lo] = r.c]])
           ELSE [vs |-> vs, cs |-> cs]
  ELSE Bind(AdvancedSatisfyAll(vs, cs, lo, (lo + hi) \div 2),
            LAMBDA next : AdvancedSatisfyAll(next.vs, next.cs, ((lo + hi) \div 2) + 1, hi))

RECURSIVE AdvancedRelax(_, _, _)
AdvancedRelax(vs, cs, iterations) ==
  IF iterations = 0 THEN [vs |-> vs, cs |-> cs]
  ELSE Bind(AdvancedSatisfyAll(vs, cs, 1, Len(cs)),
            LAMBDA next : AdvancedRelax(next.vs, next.cs, iterations - 1))

\* a faulty tear check: it sets the flag from the distance, torn or not
TearCheck_fromDistance(vs, c) ==
  [c EXCEPT !.active =
     ~(DistanceTo(vs[c.v1].position, vs[c.v2].position) * 10 > c.restLength * 25)]

\* the body of the "Tear constraints if enabled" forEach, for one constraint
TearCheck(vs, c) ==
  IF ~c.active THEN c
  ELSE IF DistanceTo(vs[c.v1].position, vs[c.v2].position) * 10 > c.restLength * 25
    THEN AdvancedVerletConstraint_tear(c)
    ELSE c

\* one call of the useFrame callback: the refs after it
AdvancedFrame(c, deltaTime, time, props) ==
  Bind(c.frameCount + 1, LAMBDA frame :
  Bind(AdvancedSpherePosition(time), LAMBDA center :
  Bind(AdvancedForceLoop(c.vertices, 1, Len(c.vertices), time, center, frame, props),
       LAMBDA forced :
  Bind([n \in 1..Len(forced) |-> AdvancedVerletVertex_update(forced[n], deltaTime)],
       LAMBDA updated :
  Bind(AdvancedRelax(updated, c.constraints, Iterations), LAMBDA relaxed :
    [vertices |-> relaxed.vs,
     constraints |-> IF props.enableTearing /\ frame % 60 = 0
                       THEN [k \in 1..Len(relaxed.cs) |->
                               TearCheck(relaxed.vs, relaxed.cs[k])]
                       ELSE relaxed.cs,
     sphere |-> [position |-> center, lastPosition |-> c.sphere.position],
     frameCount |-> frame,
     positions |-> Flatten(relaxed.vs),
     needsUpdate |-> TRUE])))))

----------------------------------------------------------------------------
(* Bounds of the model *)

\* the cloth patch of the specification Spec
SegX == 3
SegY == 2
\* frames run on one mounted cloth, handler calls in one run, frame times
MaxFrames == 3
MaxOps == 2
MaxDeltaTime == 2
\* draws of the vertex masses
MassSeeds == 2

DeltaTimes == 1..MaxDeltaTime

WindValues == {0, 10, 30}

Colors == {"#4080ff", "#ff4040"}

NoProbe == [op |-> "none"]

----------------------------------------------------------------------------
(* The application: App state (index.jsx), the keyed cloth of Scene.jsx and  *)
(* the render loop calling useFrame                                          *)

Props == [windIntensity |-> clothSettings.windIntensity,
          showSphere |-> clothSettings.showSphere,
          enableTearing |-> clothSettings.enableTearing]

Cloth == [vertices |-> vertices, constraints |-> constraints, sphere |-> sphere,
          frameCount |-> frameCount, positions |-> positions,
          needsUpdate |-> needsUpdate]

\* the refs of the mounted component become c
SetCloth(c) ==
  /\ vertices' = c.vertices
  /\ constraints' = c.constraints
  /\ sphere' = c.sphere
  /\ frameCount' = c.frameCount
  /\ positions' = c.positions
  /\ needsUpdate' = c.needsUpdate

\* a faulty remount: the mounted component is kept
Remount_kept(clothType) == UNCHANGED cloth

\* <ClothComponent key={resetKey} .../>: a new key or a new component type
\* unmounts the cloth and mounts a fresh one
Remount(clothType) ==
  \E seed \in 1..MassSeeds : \E c \in {Mount(clothType, grid, seed)} : SetCloth(c)

\* a faulty frame: the geometry is updated only every other frame
Frame_everyOther(c, clothType, deltaTime, time, props) ==
  LET f == IF clothType = "advanced" THEN AdvancedFrame(c, deltaTime, time, props)
                                     ELSE BasicFrame(c, deltaTime, time, props)
  IN IF f.frameCount % 2 = 0 THEN f
     ELSE [f EXCEPT !.positions = c.positions, !.needsUpdate = c.needsUpdate]

\* the useFrame callback of the mounted component
Frame(c, clothType, deltaTime, time, props) ==
  IF clothType = "advanced" THEN AdvancedFrame(c, deltaTime, time, props)
                            ELSE BasicFrame(c, deltaTime, time, props)

\* one tick of the render loop: state.clock advances by deltaTime and the
\* useFrame callback of the mounted cloth runs
Tick(deltaTime) ==
  /\ elapsedTime' = elapsedTime + deltaTime
  /\ \E c \in {Frame(Cloth, clothSettings.clothType, deltaTime, elapsedTime + deltaTime, Props)} :
       SetCloth(c)
  /\ UNCHANGED <<clothSettings, resetKey, grid, nOps, probe>>

Step(deltaTime) == frameCount < MaxFrames /\ Tick(deltaTime)

\* a faulty handler: the change of the wind also advances the key of the cloth
handleWindChange_remount(value) ==
  /\ nOps < MaxOps
  /\ nOps' = nOps + 1
  /\ clothSettings' = [clothSettings EXCEPT !.windIntensity = value]
  /\ resetKey' = resetKey + 1
  /\ Remount(clothSettings.clothType)
  /\ probe' = [op |-> "handleWindChange"]
  /\ UNCHANGED <<grid, elapsedTime>>

handleWindChange(value) ==
  /\ nOps < MaxOps
  /\ nOps' = nOps + 1
  /\ clothSettings' = [clothSettings EXCEPT !.windIntensity = value]
  /\ probe' = [op |-> "handleWindChange"]
  /\ UNCHANGED <<resetKey, grid, cloth, elapsedTime>>

handleSphereToggle(value) ==
  /\ nOps < MaxOps
  /\ nOps' = nOps + 1
  /\ clothSettings' = [clothSettings EXCEPT !.showSphere = value]
  /\ probe' = [op |-> "handleSphereToggle"]
  /\ UNCHANGED <<resetKey, grid, cloth, elapsedTime>>

handleColorChange(value) ==
  /\ nOps < MaxOps
  /\ nOps' = nOps + 1
  /\ clothSettings' = [clothSettings EXCEPT !.color = value]
  /\ probe' = [op |-> "handleColorChange"]
  /\ UNCHANGED <<resetKey, grid, cloth, elapsedTime>>

handleClothTypeChange(value) ==
  /\ nOps < MaxOps
  /\ nOps' = nOps + 1
  /\ clothSettings' = [clothSettings EXCEPT !.clothType = value]
  /\ resetKey' = resetKey + 1
  /\ Remount(value)
  /\ probe' = [op |-> "handleClothTypeChange"]
  /\ UNCHANGED <<grid, elapsedTime>>

\* the tearing checkbox is rendered for the advanced cloth only
handleTearingToggle(value) ==
  /\ nOps < MaxOps
  /\ clothSettings.clothType = "advanced"
  /\ nOps' = nOps + 1
  /\ clothSettings' = [clothSettings EXCEPT !.enableTearing = value]
  /\ probe' = [op |-> "handleTearingToggle"]
  /\ UNCHANGED <<resetKey, grid, cloth, elapsedTime>>

handleReset ==
  /\ nOps < MaxOps
  /\ nOps' = nOps + 1
  /\ resetKey' = resetKey + 1
  /\ clothSettings' = [clothSettings EXCEPT !.windIntensity = 10,
                                            !.showSphere = TRUE,
                                            !.color = "#4080ff"]
  /\ Remount(clothSettings.clothType)
  /\ probe' = [op |-> "handleReset"]
  /\ UNCHANGED <<grid, elapsedTime>>

InitialSettings ==
  [windIntensity |-> 10, showSphere |-> TRUE, color |-> "#4080ff",
   clothType |-> "basic", enableTearing |-> FALSE]

\* the application as it starts: the default settings, the basic cloth mounted
\* on a grid of g.segX by g.segY segments
AppInit(g) ==
  /\ clothSettings = InitialSettings
  /\ resetKey = 0
  /\ grid = g
  /\ elapsedTime = 0
  /\ nOps = 0
  /\ \E seed \in 1..MassSeeds :
       LET c == Mount("basic", grid, seed)
       IN /\ vertices = c.vertices
          /\ constraints = c.constraints
          /\ sphere = c.sphere
          /\ frameCount = c.frameCount
          /\ positions = c.positions
          /\ needsUpdate = c.needsUpdate

Init == AppInit([segX |-> SegX, segY |-> SegY]) /\ probe = NoProbe

Next ==
  \/ \E deltaTime \in DeltaTimes : Step(deltaTime)
  \/ \E value \in WindValues : handleWindChange(value)
  \/ \E value \in BOOLEAN : handleSphereToggle(value)
  \/ \E value \in Colors : handleColorChange(value)
  \/ \E value \in ClothTypes : handleClothTypeChange(value)
  \/ \E value \in BOOLEAN : handleTearingToggle(value)
  \/ handleReset

Spec == Init /\ [][Next]_vars

Advanced == clothSettings.clothType = "advanced"

\* the positions the mount of the current cloth type gives the vertices
MountPositions ==
  LET vs == IF clothSettings.clothType = "advanced" THEN AdvancedVertices(grid, 1)
                                                     ELSE BasicVertices(grid)
  IN [n \in 1..Len(vs) |-> vs[n].position]

\* the cloth is as the mount builds it
Fresh ==
  /\ frameCount = 0
  /\ Len(vertices) = NumVertices(grid)
  /\ \A n \in 1..Len(vertices) :
       /\ vertices[n].position = MountPositions[n]
       /\ vertices[n].oldPosition = vertices[n].position
  /\ Advanced => \A k \in 1..Len(constraints) : constraints[k].active

\* C10: after handleReset, whatever frames and tears came before, every vertex
\* is at its position of the flat grid with oldPosition equal to position,
\* every constraint is active and the frame counter is 0.
C10_ResetRebuilds == [][handleReset => Fresh']_vars

\* C10 happens: the advanced cloth was reset after frames had run
C10_Witness ==
  probe.op = "handleReset" /\ Advanced /\ frameCount = 0 /\ elapsedTime > 0

\* C11: handleReset leaves every configuration value as it was: windIntensity,
\* showSphere, color, clothType and enableTearing are after the reset what the
\* user had set before it.
C11_ResetKeepsSettings == [][handleReset => clothSettings' = clothSettings]_vars

\* the entry of the buffer for coordinate j (1..3) of vertex i (from 1)
BufferEntry(buffer, i, j) == buffer[3 * (i - 1) + j]

\* the step from this state to the next is a frame
IsFrame == elapsedTime' # elapsedTime

ScalarSettingChange ==
  \/ \E value \in WindValues : handleWindChange(value)
  \/ \E value \in BOOLEAN : handleSphereToggle(value)
  \/ \E value \in Colors : handleColorChange(value)
  \/ \E value \in BOOLEAN : handleTearingToggle(value)

\* C15: a change of windIntensity, showSphere, color or enableTearing keeps the
\* mounted cloth, its vertex positions, its torn constraints and its frame
\* counter; a call of handleClothTypeChange leaves a freshly built cloth.
C15_SettingsKeepClothTypeRebuilds ==
  [][/\ ScalarSettingChange
          => vertices' = vertices /\ constraints' = constraints
               /\ frameCount' = frameCount
     /\ (\E value \in ClothTypes : handleClothTypeChange(value)) => Fresh']_vars

\* C15 happens: a scalar or flag was changed on an advanced cloth that had run
\* frames and had torn constraints
C15_Witness ==
  /\ probe.op \in {"handleWindChange", "handleSphereToggle", "handleColorChange",
                   "handleTearingToggle"}
  /\ Advanced /\ frameCount > 0
  /\ \E k \in 1..Len(constraints) : ~constraints[k].active

----------------------------------------------------------------------------
(* The application built with other segment counts, negative ones included:  *)
(* the loops of useMemo then push no vertex and no constraint                *)

ConfigSegments == {-1, 1}

InitConfig ==
  /\ \E x \in ConfigSegments, y \in ConfigSegments : AppInit([segX |-> x, segY |-> y])
  /\ probe = NoProbe

SpecConfig == InitConfig /\ [][Next]_vars

----------------------------------------------------------------------------
(* A long run of the advanced cloth: a strip one row high, mounted when the   *)
(* clock shows RunStart, stepped with a recorded sequence of frame times      *)

RunSegX == 11
RunSegY == 1
MaxRunFrames == 61

RunStart == {337}

FrameTimes == <<3, 19, 49, 21, 46, 5, 4, 56, 56, 54, 39, 54, 44, 32, 17, 41, 14, 9, 55, 3, 43>>

FrameTimeAt(n) == IF n <= Len(FrameTimes) THEN FrameTimes[n] ELSE 1

InitRun ==
  /\ \E showSphere \in BOOLEAN, enableTearing \in BOOLEAN :
       clothSettings = [InitialSettings EXCEPT !.clothType = "advanced",
                                               !.windIntensity = 30,
                                               !.showSphere = showSphere,
                                               !.enableTearing = enableTearing]
  /\ resetKey = 1
  /\ grid = [segX |-> RunSegX, segY |-> RunSegY]
  /\ elapsedTime \in RunStart
  /\ nOps = 0
  /\ probe = NoProbe
  /\ \E seed \in 1..MassSeeds :
       LET c == Mount("advanced", grid, seed)
       IN /\ vertices = c.vertices
          /\ constraints = c.constraints
          /\ sphere = c.sphere
          /\ frameCount = c.frameCount
          /\ positions = c.positions
          /\ needsUpdate = c.needsUpdate

RunStep == frameCount < MaxRunFrames /\ Tick(FrameTimeAt(frameCount + 1))

NextRun ==
  \/ RunStep
  \/ \E value \in BOOLEAN : handleTearingToggle(value)

SpecRun == InitRun /\ [][NextRun]_vars

\* the distance between the endpoints of constraint k in the vertex array vs
EndpointDistance(vs, c) == DistanceTo(vs[c.v1].position, vs[c.v2].position)

\* C1: in both cloth variants a vertex created with isFixed = true has after
\* every frame exactly the position the mount gave it.
C1_FixedStaysInPlace ==
  \A n \in 1..Len(vertices) :
    vertices[n].isFixed => vertices[n].position = MountPositions[n]

\* C2: in the advanced cloth, while enableTearing has been false at every frame
\* since the mount (it is false and no handler has run), every constraint is
\* still active.
C2_NoTearingWhileDisabled ==
  (Advanced /\ nOps = 0 /\ ~clothSettings.enableTearing)
    => \A k \in 1..Len(constraints) : constraints[k].active

\* C3: a constraint whose active flag is false has it false after every step of
\* the mounted cloth: frames with their solver passes and tear checks, and
\* changes of enableTearing.
C3_TearingMonotonic ==
  [][\A k \in 1..Len(constraints) :
       ~constraints[k].active => ~constraints'[k].active]_vars

\* C3 happens: tearing has been on since the mount, the tear check of frame 60
\* has run, and a constraint torn earlier is still inactive although its
\* endpoints are now within 2.5 rest lengths
C3_Witness ==
  /\ frameCount = 60 /\ nOps = 0 /\ clothSettings.enableTearing
  /\ \E k \in 1..Len(constraints) :
       /\ ~constraints[k].active
       /\ EndpointDistance(vertices, constraints[k]) * 10 <= constraints[k].restLength * 25

\* C4: with tearing enabled, a constraint goes from active to inactive only in
\* a frame whose counter is a multiple of 60 and at whose tear check the
\* distance of its endpoints exceeds 2.5 rest lengths.
C4_TornOnlyAtTearCheck ==
  [][\A k \in 1..Len(constraints) :
       (clothSettings.enableTearing /\ constraints[k].active /\ ~constraints'[k].active)
         => /\ frameCount' % 60 = 0
            /\ EndpointDistance(vertices', constraints[k]) * 10
                 > constraints[k].restLength * 25]_vars

\* the constraints the mount of the grid builds
MountConstraints == MountAdvanced(grid, 1).constraints

\* a visit of the solver to constraint k changes neither a vertex nor a
\* constraint
SolverSkips(k) ==
  /\ AdvancedVerletConstraint_satisfy(vertices, constraints[k])
       = [vs |-> vertices, c |-> constraints[k]]
  /\ AdvancedSatisfyAll(vertices, constraints, k, k)
       = [vs |-> vertices, cs |-> constraints]

\* C13: after any sequence of frames and tears the cloth has the vertices and
\* the constraint records of its construction, none removed, and a solver
\* visit to an inactive constraint moves neither of its endpoints.
C13_InactiveExcluded ==
  /\ Len(vertices) = NumVertices(grid)
  /\ Len(constraints) = Len(MountConstraints)
  /\ \A k \in 1..Len(constraints) : ~constraints[k].active => SolverSkips(k)

\* C13 happens: frames have run and an inactive constraint has its endpoints
\* closer than 0.8 rest lengths, one of them free: active, it would be
\* corrected
C13_Witness ==
  /\ frameCount > 0
  /\ \E k \in 1..Len(constraints) :
       /\ ~constraints[k].active
       /\ EndpointDistance(vertices, constraints[k]) > 0
       /\ EndpointDistance(vertices, constraints[k]) * 10 <= constraints[k].restLength * 8
       /\ ~vertices[constraints[k].v1].isFixed \/ ~vertices[constraints[k].v2].isFixed

----------------------------------------------------------------------------
(* The classes and the collision code taken alone: one call on inputs drawn  *)
(* from bounded sets                                                         *)

\* directions of length 5
Dirs == {<<5, 0, 0>>, <<3, 4, 0>>}

\* a point at distance d (a multiple of 5) from base along dir
Along(base, dir, d) == VAdd(base, <<dir[1] * (d \div 5), dir[2] * (d \div 5), dir[3] * (d \div 5)>>)

VertexKinds == {"free", "fixed", "pinned"}

BasicVertexAt(pos, kind) == VerletVertex(pos[1], pos[2], pos[3], kind = "fixed")

\* an advanced vertex: built by the constructor, its mass drawn, pinned by pin()
AdvancedVertexAt(pos, kind, mass) ==
  LET v == [AdvancedVerletVertex(pos[1], pos[2], pos[3], kind = "fixed") EXCEPT !.mass = mass]
  IN IF kind = "pinned" THEN AdvancedVerletVertex_pin(v) ELSE v

MoveTo(v, pos) == [v EXCEPT !.position = pos]

RestLengths == {80, 100, 120, 1000}

Distances == {0, 50, 80, 100, 150, 2000}

MassPairs == {<<10, 10>>, <<8, 11>>, <<11, 8>>}

\* a constraint built at rest length L and its two vertices now d apart
BasicSatInputs ==
  { LET a == BasicVertexAt(<<10, -20, 30>>, k1)
        b == BasicVertexAt(Along(<<10, -20, 30>>, dir, L), k2)
    IN [op |-> "satisfy", variant |-> "basic",
        vs |-> <<a, MoveTo(b, Along(<<10, -20, 30>>, dir, d))>>,
        c |-> VerletConstraint(<<a, b>>, 1, 2)] :
    dir \in Dirs, L \in RestLengths, d \in Distances,
    k1 \in {"free", "fixed"}, k2 \in {"free", "fixed"} }

AdvancedSatInputs ==
  { LET a == AdvancedVertexAt(<<10, -20, 30>>, k1, m[1])
        b == AdvancedVertexAt(Along(<<10, -20, 30>>, dir, L), k2, m[2])
        c == AdvancedVerletConstraint(<<a, b>>, 1, 2, st)
    IN [op |-> "satisfy", variant |-> "advanced",
        vs |-> <<a, MoveTo(b, Along(<<10, -20, 30>>, dir, d))>>,
        c |-> IF act THEN c ELSE AdvancedVerletConstraint_tear(c)] :
    dir \in Dirs, L \in RestLengths, d \in Distances, st \in {50, 15}, m \in MassPairs,
    k1 \in VertexKinds, k2 \in VertexKinds, act \in BOOLEAN }

\* a free vertex at distance d from the sphere center of the frame at time t,
\* its previous position back along w
CollisionInputs ==
  { LET center == IF variant = "advanced" THEN AdvancedSpherePosition(t)
                                          ELSE BasicSpherePosition(t)
        pos == Along(center, dir, d)
        old == VAdd(pos, w)
    IN [op |-> "collide", variant |-> variant, center |-> center,
        v |-> IF variant = "advanced"
                THEN [AdvancedVertexAt(pos, "free", 10) EXCEPT !.oldPosition = old]
                ELSE [BasicVertexAt(pos, "free") EXCEPT !.oldPosition = old]] :
    variant \in ClothTypes, t \in {0, 25}, dir \in Dirs \cup {<<0, -3, 4>>, <<-4, 0, -3>>},
    d \in {0, 5, 100, 250, 295, 300, 375, 380, 500},
    w \in {<<0, 0, 0>>, <<20, 20, 0>>, <<-20, -20, -20>>} }

ProbeInputs == BasicSatInputs \cup AdvancedSatInputs \cup CollisionInputs

\* constraint.satisfy() on the two vertices of the probe
ProbeSatisfy ==
  /\ probe.op = "satisfy"
  /\ probe' = IF probe.variant = "advanced"
                THEN LET r == AdvancedVerletConstraint_satisfy(probe.vs, probe.c)
                     IN [op |-> "satisfied", variant |-> probe.variant,
                         vs |-> probe.vs, c |-> probe.c, vsAfter |-> r.vs, cAfter |-> r.c]
                ELSE [op |-> "satisfied", variant |-> probe.variant,
                      vs |-> probe.vs, c |-> probe.c,
                      vsAfter |-> VerletConstraint_satisfy(probe.vs, probe.c),
                      cAfter |-> probe.c]
  /\ UNCHANGED <<clothSettings, resetKey, grid, cloth, elapsedTime, nOps>>

\* the sphere collision of one vertex
ProbeCollide ==
  /\ probe.op = "collide"
  /\ probe' = [op |-> "collided", variant |-> probe.variant, center |-> probe.center,
               v |-> probe.v,
               vAfter |-> IF probe.variant = "advanced"
                            THEN AdvancedSphereCollision(probe.v, probe.center)
                            ELSE BasicSphereCollision(probe.v, probe.center)]
  /\ UNCHANGED <<clothSettings, resetKey, grid, cloth, elapsedTime, nOps>>

InitUnit == AppInit([segX |-> SegX, segY |-> SegY]) /\ probe \in ProbeInputs

NextUnit == ProbeSatisfy \/ ProbeCollide

SpecUnit == InitUnit /\ [][NextUnit]_vars

\* within two units (0.002) of each other: the rounding of the fixed point
Near(a, b) == Abs(a - b) <= 2

Cross(u, v) ==
  <<u[2] * v[3] - u[3] * v[2], u[3] * v[1] - u[1] * v[3], u[1] * v[2] - u[2] * v[1]>>

\* u lies along axis, up to the rounding of its components
AlongAxis(u, axis) ==
  \A i \in 1..3 : Abs(Cross(u, axis)[i]) <= 2 * VLength(axis)

Satisfied == probe.op = "satisfied"

\* vertex n of the probe is held: fixed, or in the advanced cloth pinned
Held(n) ==
  probe.vs[n].isFixed \/ (probe.variant = "advanced" /\ probe.vs[n].pinned)

\* the constraint of the probe was active when satisfy() was called
ProbeActive == probe.variant = "advanced" => probe.c.active

ProbeStiffness == IF probe.variant = "advanced" THEN probe.c.stiffness ELSE STIFFNESS_basic

\* distance of the two vertices before and after the call
DistanceBefore == DistanceTo(probe.vs[1].position, probe.vs[2].position)

DistanceAfter == DistanceTo(probe.vsAfter[1].position, probe.vsAfter[2].position)

\* what the call moved vertex n by
Displacement(n) == VSub(probe.vsAfter[n].position, probe.vs[n].position)

\* C5: in one satisfy() of a constraint with exactly one held endpoint, the held
\* endpoint does not move and the free one moves by
\* |restLength - distance| * stiffness along the connecting axis.
C5_FreeEndpointTakesFullCorrection ==
  \A n \in {1, 2} :
    (Satisfied /\ ProbeActive /\ DistanceBefore > 0 /\ Held(n) /\ ~Held(3 - n))
      => /\ Displacement(n) = <<0, 0, 0>>
         /\ AlongAxis(Displacement(3 - n),
                      VSub(probe.vs[2].position, probe.vs[1].position))
         /\ Near(VLength(Displacement(3 - n)),
                 RDiv(Abs(probe.c.restLength - DistanceBefore) * ProbeStiffness, 100))

C7_DistanceAfterSatisfy ==
  (Satisfied /\ ProbeActive /\ DistanceBefore > 0 /\ ~Held(1) /\ ~Held(2)
     /\ (probe.variant = "advanced" => probe.vs[1].mass = probe.vs[2].mass))
    => Near(DistanceAfter,
            DistanceBefore
              - RDiv((DistanceBefore - probe.c.restLength) * ProbeStiffness, 100))

Collided == probe.op = "collided"

\* radius + margin of the sphere collision
MinDistance == IF probe.variant = "advanced" THEN SphereRadius + 80
                                             ELSE SphereRadius_basic + 50

\* C8: a free vertex at distance d < radius + margin from the sphere center of
\* the frame, d = 0 included, is after its collision resolution at distance
\* radius + margin from that center.
C8_CollisionExact ==
  (Collided /\ DistanceTo(probe.v.position, probe.center) < MinDistance)
    => Near(DistanceTo(probe.vAfter.position, probe.center), MinDistance)

----------------------------------------------------------------------------
(* The vertex classes and the force stage of useFrame taken alone: one call  *)
(* on a vertex drawn from bounded sets                                       *)

VertexPositions == {<<0, 0, 0>>, <<250, -120, 330>>, <<-1040, 60, 2080>>}

\* position - oldPosition of the vertex
VertexVelocities == {<<0, 0, 0>>, <<12, -30, 7>>}

VertexMasses == {8, 10, 11}

\* state.clock.elapsedTime of the frame, in 0.1 s
ForceTimes == {0, 7, 25, 1234}

\* a vertex of either class as a frame finds it
VertexInputsOf(variant) ==
  { LET v == IF variant = "advanced" THEN AdvancedVertexAt(pos, kind, mass)
                                     ELSE BasicVertexAt(pos, kind)
    IN [v EXCEPT !.oldPosition = VSub(pos, vel), !.acceleration = acc] :
    pos \in VertexPositions, vel \in VertexVelocities,
    acc \in {<<0, 0, 0>>, <<0, -9800, 0>>, <<1500, -12250, -400>>},
    kind \in (IF variant = "advanced" THEN VertexKinds ELSE {"free", "fixed"}),
    mass \in (IF variant = "advanced" THEN VertexMasses ELSE {10}) }

\* the "Apply forces" stage of a frame for one vertex that has no accumulated
\* acceleration (update() has cleared it)
ApplyForcesInputs ==
  { [op |-> "applyForces", variant |-> variant, v |-> v, time |-> time,
     props |-> [windIntensity |-> windIntensity, showSphere |-> FALSE,
                enableTearing |-> FALSE]] :
    variant \in ClothTypes,
    v \in { u \in VertexInputsOf("basic") \cup VertexInputsOf("advanced") :
              u.acceleration = <<0, 0, 0>> },
    time \in ForceTimes, windIntensity \in WindValues }

\* forces handed to addForce
Forces == {<<0, -9800, 0>>, <<2400, -360, 1920>>, <<0, 0, 0>>}

\* vertex.addForce(force)
AddForceInputs ==
  { [op |-> "addForce", variant |-> variant, v |-> v, force |-> force] :
    variant \in ClothTypes,
    v \in VertexInputsOf("basic") \cup VertexInputsOf("advanced"),
    force \in Forces }

\* deltaTime of a frame, in 0.1 s
UpdateTimes == {1, 2, 10}

\* vertex.update(deltaTime)
UpdateInputs ==
  { [op |-> "update", variant |-> variant, v |-> v, deltaTime |-> deltaTime] :
    variant \in ClothTypes,
    v \in VertexInputsOf("basic") \cup VertexInputsOf("advanced"),
    deltaTime \in UpdateTimes }

\* a cloth of one cell as the mount builds it, about to run frames
FrameInputs ==
  { [op |-> "frame", variant |-> variant,
     cloth |-> Mount(variant, [segX |-> 1, segY |-> 1], seed), time |-> time,
     props |-> [windIntensity |-> windIntensity, showSphere |-> showSphere,
                enableTearing |-> FALSE]] :
    variant \in ClothTypes, seed \in 1..MassSeeds, time \in ForceTimes,
    windIntensity \in WindValues, showSphere \in BOOLEAN }

\* the vertex of an input is of the class of its variant
VertexProbeInputs ==
  { i \in ApplyForcesInputs \cup AddForceInputs \cup UpdateInputs :
      ("mass" \in DOMAIN i.v) <=> (i.variant = "advanced") }
  \cup FrameInputs

\* the body of the "Apply forces" forEach on the vertex of the probe
ProbeApplyForces ==
  /\ probe.op = "applyForces"
  /\ probe' = [op |-> "forced", variant |-> probe.variant, v |-> probe.v,
               time |-> probe.time, props |-> probe.props,
               vAfter |-> IF probe.variant = "advanced"
                            THEN AdvancedApplyForces(<<probe.v>>, 1, probe.time,
                                                     AdvancedSpherePosition(probe.time),
                                                     1, probe.props)[1]
                            ELSE BasicApplyForces(probe.v, probe.time,
                                                  BasicSpherePosition(probe.time),
                                                  probe.props)]
  /\ UNCHANGED <<clothSettings, resetKey, grid, cloth, elapsedTime, nOps>>

\* vertex.addForce(force) on the vertex of the probe
ProbeAddForce ==
  /\ probe.op = "addForce"
  /\ probe' = [op |-> "forceAdded", variant |-> probe.variant, v |-> probe.v,
               force |-> probe.force,
               vAfter |-> IF probe.variant = "advanced"
                            THEN AdvancedVerletVertex_addForce(probe.v, probe.force)
                            ELSE VerletVertex_addForce(probe.v, probe.force)]
  /\ UNCHANGED <<clothSettings, resetKey, grid, cloth, elapsedTime, nOps>>

\* vertex.update(deltaTime) on the vertex of the probe
ProbeUpdate ==
  /\ probe.op = "update"
  /\ probe' = [op |-> "updated", variant |-> probe.variant, v |-> probe.v,
               deltaTime |-> probe.deltaTime,
               vAfter |-> IF probe.variant = "advanced"
                            THEN AdvancedVerletVertex_update(probe.v, probe.deltaTime)
                            ELSE VerletVertex_update(probe.v, probe.deltaTime)]
  /\ UNCHANGED <<clothSettings, resetKey, grid, cloth, elapsedTime, nOps>>

\* one more frame of the useFrame callback on the cloth of the probe
ProbeFrame ==
  /\ probe.op = "frame"
  /\ probe.cloth.frameCount < MaxFrames
  /\ \E deltaTime \in UpdateTimes :
       probe' = [probe EXCEPT
                   !.time = probe.time + deltaTime,
                   !.cloth = Frame(probe.cloth, probe.variant, deltaTime,
                                   probe.time + deltaTime, probe.props)]
  /\ UNCHANGED <<clothSettings, resetKey, grid, cloth, elapsedTime, nOps>>

InitVertex == AppInit([segX |-> SegX, segY |-> SegY]) /\ probe \in VertexProbeInputs

NextVertex == ProbeApplyForces \/ ProbeAddForce \/ ProbeUpdate \/ ProbeFrame

SpecVertex == InitVertex /\ [][NextVertex]_vars

Forced == probe.op = "forced"

\* the vertex of the probe is fixed, or in the advanced cloth pinned
HeldVertex == probe.v.isFixed \/ (probe.variant = "advanced" /\ probe.v.pinned)

\* the acceleration gravity alone adds to the vertex of the probe
GravityOnly ==
  IF probe.variant = "advanced" THEN VScale(Vector3(0, GRAVITY, 0), 10, probe.v.mass)
                                ELSE Vector3(0, GRAVITY_basic, 0)

\* the wind force of the frame at the vertex of the probe
WindAt(windIntensity) ==
  IF probe.variant = "advanced"
    THEN AdvancedWind(probe.time, probe.v.position, windIntensity)
    ELSE BasicWind(probe.time, probe.v.position, windIntensity)

\* C12: with windIntensity = 0 the wind force of a frame is the zero vector at
\* every vertex, in both variants, and the force stage leaves in a free vertex
\* the acceleration of gravity alone (and none in a held one).
C12_ZeroWind ==
  (Forced /\ probe.props.windIntensity = 0)
    => /\ WindAt(0) = <<0, 0, 0>>
       /\ probe.vAfter.acceleration
            = IF HeldVertex THEN probe.v.acceleration
                            ELSE VAdd(probe.v.acceleration, GravityOnly)

\* C12 happens: a free vertex went through the force stage with windIntensity 0
\* at a place and time where the wind of intensity 1.0 is not zero
C12_Witness ==
  /\ Forced /\ probe.props.windIntensity = 0 /\ ~HeldVertex
  /\ WindAt(10)[1] # 0 /\ WindAt(10)[2] # 0 /\ WindAt(10)[3] # 0

----------------------------------------------------------------------------
(* One isolated constraint between two free vertices of equal mass, built at *)
(* rest length L, its endpoints then set 2L apart, and satisfy() called on   *)
(* it again and again                                                        *)

MaxIterations == 6

SolveRestLengths == {80, 100, 120, 500, 1000}

\* STIFFNESS and the shear and bend multiples of it
SolveStiffnesses == {STIFFNESS, RDiv(STIFFNESS * 8, 10), RDiv(STIFFNESS * 3, 10)}

SolveInputs ==
  { LET a == BasicVertexAt(<<10, -20, 30>>, "free")
        b == BasicVertexAt(Along(<<10, -20, 30>>, dir, L), "free")
    IN [op |-> "solve", variant |-> "basic", iteration |-> 0, before |-> 2 * L,
        vs |-> <<a, MoveTo(b, Along(<<10, -20, 30>>, dir, 2 * L))>>,
        c |-> VerletConstraint(<<a, b>>, 1, 2)] :
    dir \in Dirs, L \in SolveRestLengths }
  \cup
  { LET a == AdvancedVertexAt(<<10, -20, 30>>, "free", mass)
        b == AdvancedVertexAt(Along(<<10, -20, 30>>, dir, L), "free", mass)
    IN [op |-> "solve", variant |-> "advanced", iteration |-> 0, before |-> 2 * L,
        vs |-> <<a, MoveTo(b, Along(<<10, -20, 30>>, dir, 2 * L))>>,
        c |-> AdvancedVerletConstraint(<<a, b>>, 1, 2, stiffness)] :
    dir \in Dirs, L \in SolveRestLengths, stiffness \in SolveStiffnesses,
    mass \in VertexMasses }

\* distance of the two vertices of the probe
SolveDistance == DistanceTo(probe.vs[1].position, probe.vs[2].position)

\* one more solver iteration on the constraint: the call the solver loop makes
ProbeIterate ==
  /\ probe.op = "solve"
  /\ probe.iteration < MaxIterations
  /\ probe' = IF probe.variant = "advanced"
                THEN LET r == AdvancedSatisfyAll(probe.vs, <<probe.c>>, 1, 1)
                     IN [probe EXCEPT !.iteration = probe.iteration + 1,
                                      !.before = SolveDistance,
                                      !.vs = r.vs, !.c = r.cs[1]]
                ELSE [probe EXCEPT !.iteration = probe.iteration + 1,
                                   !.before = SolveDistance,
                                   !.vs = BasicSatisfyAll(probe.vs, <<probe.c>>, 1, 1)]
  /\ UNCHANGED <<clothSettings, resetKey, grid, cloth, elapsedTime, nOps>>

InitSolve == AppInit([segX |-> SegX, segY |-> SegY]) /\ probe \in SolveInputs

NextSolve == ProbeIterate

SpecSolve == InitSolve /\ [][NextSolve]_vars

\* C16: from distance 2L, over the solver iterations on the isolated constraint,
\* the distance does not increase from one iteration to the next, does not
\* drop below L, and is strictly closer to L after every iteration that
\* started above L, in both cloth variants.  (Within 0.005 of L, the rounding
\* of the fixed point, the distance counts as having reached L.)
C16_ConvergesMonotonically ==
  (probe.op = "solve" /\ probe.iteration > 0)
    => /\ SolveDistance <= probe.before
       /\ SolveDistance >= probe.c.restLength - 5
       /\ probe.before > probe.c.restLength + 5
            => SolveDistance < probe.before

\* C17: addForce(force) on a fixed or pinned vertex changes nothing, in both
\* vertex classes: its acceleration, position and oldPosition are after the
\* call what they were before.
C17_AddForceOnHeldIsNoOp ==
  (probe.op = "forceAdded" /\ HeldVertex)
    => /\ probe.vAfter.acceleration = probe.v.acceleration
       /\ probe.vAfter.position = probe.v.position
       /\ probe.vAfter.oldPosition = probe.v.oldPosition

\* DAMPING of the class of the probe
Damping == IF probe.variant = "advanced" THEN DAMPING ELSE DAMPING_basic

\* C18: update(dt) on a free vertex with position p, previous position q and
\* acceleration a leaves oldPosition = p, position = p + damping * (p - q)
\* + a * dt^2 and acceleration = 0, and changes nothing on a fixed or pinned
\* vertex; after every frame of a cloth every vertex has acceleration 0.
C18_UpdateIntegrates ==
  /\ (probe.op = "updated" /\ ~HeldVertex)
       => /\ probe.vAfter.oldPosition = probe.v.position
          /\ \A j \in 1..3 :
               probe.vAfter.position[j]
                 = probe.v.position[j]
                     + RDiv((probe.v.position[j] - probe.v.oldPosition[j]) * Damping, 1000)
                     + RDiv(probe.v.acceleration[j] * probe.deltaTime * probe.deltaTime,
                            100000)
          /\ probe.vAfter.acceleration = <<0, 0, 0>>
  /\ (probe.op = "updated" /\ HeldVertex) => probe.vAfter = probe.v
  /\ probe.op = "frame"
       => \A n \in 1..Len(probe.cloth.vertices) :
            probe.cloth.vertices[n].acceleration = <<0, 0, 0>>

\* C18 happens: update(1 s) on a moving free vertex with accumulated
\* acceleration has changed its position by velocity and acceleration
C18_Witness ==
  /\ probe.op = "updated" /\ ~HeldVertex /\ probe.deltaTime = 10
  /\ probe.v.acceleration # <<0, 0, 0>> /\ probe.v.oldPosition # probe.v.position
  /\ probe.vAfter.position[2] < probe.v.position[2] - 30

----------------------------------------------------------------------------
(* The topology built by useMemo for grids of other sizes: the cloth of      *)
(* either variant as it is mounted, and remounted by the handlers            *)

MaxSegments == 4

InitTopology ==
  /\ \E x \in 1..MaxSegments, y \in 1..MaxSegments : AppInit([segX |-> x, segY |-> y])
  /\ probe = NoProbe

NextTopology ==
  \/ \E value \in ClothTypes : handleClothTypeChange(value)
  \/ handleReset

SpecTopology == InitTopology /\ [][NextTopology]_vars

\* the index in the vertex array (from 1) of the grid node in column x, row y
NodeAt(x, y) == y * (grid.segX + 1) + x + 1

\* the offsets (dx, dy) a constraint may span
LinkOffsets == {<<1, 0>>, <<0, 1>>, <<1, 1>>, <<-1, 1>>, <<2, 0>>, <<0, 2>>}

\* the pairs of existing grid nodes that lie at one of the offsets
ExpectedLinks ==
  { {NodeAt(n[1], n[2]), NodeAt(n[1] + off[1], n[2] + off[2])} :
      <<n, off>> \in { <<m, o>> \in ((0..grid.segX) \X (0..grid.segY)) \X LinkOffsets :
                         /\ m[1] + o[1] \in 0..grid.segX
                         /\ m[2] + o[2] \in 0..grid.segY } }

\* the pairs of vertices the constraints of the cloth join
BuiltLinks == { {constraints[k].v1, constraints[k].v2} : k \in 1..Len(constraints) }

\* C19: for a grid of segX >= 1 by segY >= 1 segments the mounted cloth of
\* either variant has (segX+1)(segY+1) vertices and exactly one constraint for
\* each pair of grid nodes at offset (1,0), (0,1), (1,1), (-1,1), (2,0) or
\* (0,2) and no other; every constraint joins two distinct vertices of the
\* array at a rest length > 0, and there are segX(segY+1) + (segX+1)segY
\* + 2 segX segY + (segX-1)(segY+1) + (segX+1)(segY-1) of them.
C19_Topology ==
  LET segX == grid.segX
      segY == grid.segY
  IN /\ Len(vertices) = (segX + 1) * (segY + 1)
     /\ BuiltLinks = ExpectedLinks
     /\ Len(constraints) = Cardinality(ExpectedLinks)
     /\ Len(constraints) = segX * (segY + 1) + (segX + 1) * segY + 2 * segX * segY
                             + (segX - 1) * (segY + 1) + (segX + 1) * (segY - 1)
     /\ \A k \in 1..Len(constraints) :
          /\ constraints[k].v1 \in 1..Len(vertices)
          /\ constraints[k].v2 \in 1..Len(vertices)
          /\ constraints[k].v1 # constraints[k].v2
          /\ constraints[k].restLength > 0

\* C19 happens: the advanced cloth was mounted on a grid that is not square and
\* has room for bend constraints along both axes
C19_Witness ==
  /\ Advanced /\ grid.segX >= 3 /\ grid.segY >= 2 /\ grid.segX # grid.segY
  /\ Len(constraints) > 0 /\ frameCount = 0

----------------------------------------------------------------------------
(* The stages of a frame run one after the other, as a pipeline: the forces  *)
(* of all vertices first, then the collisions of all vertices                *)

\* gravity and wind of the frame accumulated in vertex v, at the place it has
ForcesOf(v, time, props) ==
  IF v.isFixed \/ v.pinned THEN v
  ELSE AdvancedVerletVertex_addForce(
         AdvancedVerletVertex_addForce(v, Vector3(0, GRAVITY, 0)),
         AdvancedWind(time, v.position, props.windIntensity))

\* sphere collision and self-collision of vertex i
CollisionsOf(vs, i, center, frame, props) ==
  IF vs[i].isFixed \/ vs[i].pinned THEN vs
  ELSE Bind([vs EXCEPT ![i] = IF props.showSphere
                                THEN AdvancedSphereCollision(vs[i], center)
                                ELSE vs[i]], LAMBDA vs1 :
       IF frame % 3 = 0 THEN SelfCollision(vs1, i, i + 10) ELSE vs1)

\* the collisions of the vertices lo..hi, in order
RECURSIVE CollisionLoop(_, _, _, _, _, _)
CollisionLoop(vs, lo, hi, center, frame, props) ==
  IF lo > hi THEN vs
  ELSE IF lo = hi THEN CollisionsOf(vs, lo, center, frame, props)
  ELSE Bind(CollisionLoop(vs, lo, (lo + hi) \div 2, center, frame, props),
            LAMBDA next : CollisionLoop(next, ((lo + hi) \div 2) + 1, hi,
                                        center, frame, props))

\* force generation for all vertices, then collision resolution for all
StagedForces(vs, time, center, frame, props) ==
  Bind([n \in 1..Len(vs) |-> ForcesOf(vs[n], time, props)], LAMBDA forced :
       CollisionLoop(forced, 1, Len(forced), center, frame, props))

\* a frame of the advanced cloth run as the pipeline: force generation,
\* collision resolution, integration, constraint solver, tear check, geometry
\* sync
StagedFrame(c, deltaTime, time, props) ==
  Bind(c.frameCount + 1, LAMBDA frame :
  Bind(AdvancedSpherePosition(time), LAMBDA center :
  Bind(StagedForces(c.vertices, time, center, frame, props), LAMBDA collided :
  Bind([n \in 1..Len(collided) |-> AdvancedVerletVertex_update(collided[n], deltaTime)],
       LAMBDA updated :
  Bind(AdvancedRelax(updated, c.constraints, Iterations), LAMBDA relaxed :
    [vertices |-> relaxed.vs,
     constraints |-> IF props.enableTearing /\ frame % 60 = 0
                       THEN [k \in 1..Len(relaxed.cs) |->
                               TearCheck(relaxed.vs, relaxed.cs[k])]
                       ELSE relaxed.cs,
     positions |-> Flatten(relaxed.vs)])))))

\* C20: a frame runs its stages strictly in order, force generation for all
\* vertices, then collision resolution for all vertices, then integration,
\* the constraint solver, the tear check and the geometry sync, no collision
\* moving a vertex before the force of every vertex is computed: a frame of
\* the advanced cloth leaves what the pipeline leaves.
C20_StagesInOrder ==
  [][(IsFrame /\ Advanced)
       => LET staged == StagedFrame(Cloth, elapsedTime' - elapsedTime, elapsedTime', Props)
          IN /\ vertices' = staged.vertices
             /\ constraints' = staged.constraints
             /\ positions' = staged.positions]_vars

-----------------------------------------------------------------------------
(* The 8th Wall bridge: the effect of EightWallBridge that starts and stops  *)
(* the XR session (EighthWallBridge.jsx).  The bridge lives in probe: the    *)
(* refs and state of the mounted component instance, the listeners it has    *)
(* registered on window and on the canvas, and the sessions XR8 holds open.  *)

\* the number of times the effect body runs
MaxEffects == 4

\* the component as rendered for the first time, its effect not yet run;
\* window.XR8 is there or not, as the engine script has loaded or not
Bridge(xr8) ==
  [op |-> "bridge",
   XR8 |-> xr8,            \* window.XR8 is defined
   mounted |-> TRUE,       \* a component instance is mounted
   instance |-> 1,         \* the mounted (or last mounted) instance
   effect |-> "none",      \* the cleanup the effect returned: "listener", "full"
   xrloaded |-> FALSE,     \* handleXRLoaded is registered on window
   initialized |-> FALSE,  \* initialized.current
   cleanupRef |-> 0,       \* cleanupRef.current: the touch listeners it removes
   touch |-> {},           \* the touch listener pairs on the canvas
   open |-> 0,             \* calls of XR8.run not followed by XR8.stop
   started |-> FALSE,      \* onStart of the registered modules has run
   module |-> 0,           \* the instance whose modules are registered
   xr8Ready |-> FALSE,
   error |-> FALSE,
   runs |-> 0,             \* calls of XR8.run so far
   effects |-> 0]          \* runs of the effect body so far

\* initXR: nothing without window.XR8 or when initialized; else the modules are
\* replaced and XR8.run is called; a throw inside the try (ok = FALSE) is
\* caught, recorded and resets initialized
initXR(b, ok) ==
  IF ~b.XR8 \/ b.initialized THEN b
  ELSE IF ok
    THEN [b EXCEPT !.initialized = TRUE,
                   !.module = b.instance,
                   !.started = FALSE,
                   !.open = @ + 1,
                   !.runs = @ + 1]
    ELSE [b EXCEPT !.initialized = FALSE, !.error = TRUE]

\* the cleanup returned when window.XR8 was missing: the 'xrloaded' listener
\* is removed
removeXRLoaded(b) == [b EXCEPT !.xrloaded = FALSE]

\* the cleanup returned when window.XR8 was there: cleanupRef.current removes
\* its touch listeners, XR8.stop, initialized reset, setXr8Ready(false)
stopXR(b) ==
  [b EXCEPT !.touch = @ \ {b.cleanupRef},
            !.open = 0,
            !.started = FALSE,
            !.initialized = FALSE,
            !.xr8Ready = FALSE]

\* the effect body: with window.XR8, initXR and the full cleanup; without, the
\* 'xrloaded' listener and the cleanup that removes it
useEffect ==
  /\ probe.op = "bridge"
  /\ probe.mounted
  /\ probe.effect = "none"
  /\ probe.effects < MaxEffects
  /\ \E ok \in BOOLEAN :
       probe' = IF probe.XR8
                  THEN [initXR(probe, ok) EXCEPT !.effect = "full", !.effects = @ + 1]
                  ELSE [probe EXCEPT !.xrloaded = TRUE,
                                     !.effect = "listener",
                                     !.effects = @ + 1]
  /\ UNCHANGED <<clothSettings, resetKey, grid, cloth, elapsedTime, nOps>>

\* React runs the cleanup the effect returned, before the effect runs again
\* or as the component unmounts
useEffectCleanup(unmount) ==
  /\ probe.op = "bridge"
  /\ probe.effect # "none"
  /\ probe' = [(IF probe.effect = "full" THEN stopXR(probe) ELSE removeXRLoaded(probe))
                 EXCEPT !.effect = "none", !.mounted = ~unmount]
  /\ UNCHANGED <<clothSettings, resetKey, grid, cloth, elapsedTime, nOps>>

\* the bridge is mounted again: a new instance, with new refs and state
MountBridge ==
  /\ probe.op = "bridge"
  /\ ~probe.mounted
  /\ probe.effects < MaxEffects
  /\ probe' = [probe EXCEPT !.mounted = TRUE,
                            !.instance = @ + 1,
                            !.initialized = FALSE,
                            !.cleanupRef = 0,
                            !.xr8Ready = FALSE,
                            !.error = FALSE]
  /\ UNCHANGED <<clothSettings, resetKey, grid, cloth, elapsedTime, nOps>>

\* the engine script has loaded: window.XR8 is defined and 'xrloaded' is
\* dispatched on window, calling handleXRLoaded where it is registered
handleXRLoaded ==
  /\ probe.op = "bridge"
  /\ ~probe.XR8
  /\ \E ok \in BOOLEAN :
       probe' = IF probe.xrloaded
                  THEN initXR([probe EXCEPT !.XR8 = TRUE], ok)
                  ELSE [probe EXCEPT !.XR8 = TRUE]
  /\ UNCHANGED <<clothSettings, resetKey, grid, cloth, elapsedTime, nOps>>

\* XR8 starts the session and calls onStart of the registered scene module:
\* with the XR8 scene the touch listeners are added to the canvas and
\* cleanupRef.current is set to remove them; without it the throw is caught
onStart(scene) ==
  /\ probe.op = "bridge"
  /\ probe.open > 0
  /\ ~probe.started
  /\ probe' =
       IF scene
         THEN [probe EXCEPT !.started = TRUE,
                            !.touch = @ \cup {probe.runs},
                            !.xr8Ready = IF probe.module = probe.instance THEN TRUE ELSE @,
                            !.cleanupRef = IF probe.module = probe.instance
                                             THEN probe.runs ELSE @]
         ELSE [probe EXCEPT !.started = TRUE,
                            !.error = IF probe.module = probe.instance THEN TRUE ELSE @]
  /\ UNCHANGED <<clothSettings, resetKey, grid, cloth, elapsedTime, nOps>>

InitBridge ==
  /\ AppInit([segX |-> SegX, segY |-> SegY])
  /\ \E xr8 \in BOOLEAN : probe = Bridge(xr8)

NextBridge ==
  \/ useEffect
  \/ \E unmount \in BOOLEAN : useEffectCleanup(unmount)
  \/ MountBridge
  \/ handleXRLoaded
  \/ \E scene \in BOOLEAN : onStart(scene)

SpecBridge == InitBridge /\ [][NextBridge]_vars

\* C21: every XR session the bridge starts is stopped when its effect is
\* cleaned up.  On both start paths, once the cleanup that follows a call of
\* XR8.run has run, no call of XR8.run is left without its XR8.stop, no touch
\* listener is left on the canvas and initialized is false; and so XR8.run is
\* never called on top of a session that was not stopped.
C21_CleanupStopsSession ==
  probe.op = "bridge"
    => /\ (probe.effect = "none" /\ probe.runs > 0)
            => /\ probe.open = 0
               /\ probe.touch = {}
               /\ ~probe.initialized
       /\ probe.open <= 1

====
